---- MODULE Spec2Model ----
(***************************************************************************)
(* Debt deleveraging planner: payoff simulation combined with ETF growth,  *)
(* scenario comparison, plan creation and the sequential tool pipeline.    *)
(*                                                                         *)
(* Amounts are fixed-point integers in cents; annual rates and allocation  *)
(* percentages are whole percents.  A product of an amount with a rate is  *)
(* truncated to the cent (the program computes in binary floating point).  *)
(***************************************************************************)
EXTENDS Integers, Sequences, FiniteSets, TLC

\* ---------------------------------------------------------------- bounds
\* Horizon of the simulations, standing for the default max_months.
MaxMonths == 4
\* Largest number of debts in a portfolio.
MaxDebts == 2

\* ------------------------------------------------------------- utilities
\* Optional[float]: None is the empty tuple, a present value v is <<v>>.
None == << >>
Some(v) == <<v>>

\* Python truthiness of an Optional[float]: None and 0 are falsy.
Truthy(x) == x # None /\ x[1] # 0

Min(a, b) == IF a <= b THEN a ELSE b
Max(a, b) == IF a >= b THEN a ELSE b

RECURSIVE SumSeq(_)
SumSeq(s) == IF s = << >> THEN 0 ELSE Head(s) + SumSeq(Tail(s))

\* amount * (annual_rate / 12), annual_rate in percent
MulMonthlyRate(amount, annual_rate) == (amount * annual_rate) \div 1200

\* amount * percentage, percentage in percent
MulPct(amount, pct) == (amount * pct) \div 100

\* ------------------------------------------------------------ data model
\* Debt: name, current_balance, annual_interest_rate, minimum_payment.
DebtPool ==
  << [name |-> "card",   current_balance |-> 300000,
      annual_interest_rate |-> 24, minimum_payment |-> 10000],
     [name |-> "loan",   current_balance |-> 10000 * MaxMonths,
      annual_interest_rate |-> 0,  minimum_payment |-> 10000],
     [name |-> "auto",   current_balance |-> 25000,
      annual_interest_rate |-> 12, minimum_payment |-> 10000],
     [name |-> "stuck",  current_balance |-> 100000,
      annual_interest_rate |-> 12, minimum_payment |-> 500],
     [name |-> "closed", current_balance |-> 0,
      annual_interest_rate |-> 12, minimum_payment |-> 5000] >>

\* DebtPortfolio.debts: an insertion-ordered list of up to MaxDebts distinct
\* debts, taken in the order of the pool.
Portfolios ==
  UNION { { [k \in 1..n |-> DebtPool[pick[k]]] :
              pick \in { p \in [1..n -> 1..Len(DebtPool)] :
                           \A i, j \in 1..n : i < j => p[i] < p[j] } } :
          n \in 0..MaxDebts }

\* PayoffStrategy enum values
PayoffStrategy == {"avalanche", "snowball", "hybrid"}

\* Debt.interest_this_month
interest_this_month(d) ==
  MulMonthlyRate(d.current_balance, d.annual_interest_rate)

\* DebtPortfolio.total_balance
total_balance(debts) ==
  SumSeq([i \in 1..Len(debts) |-> debts[i].current_balance])

\* DebtPortfolio.total_minimum_payments
total_minimum_payments(debts) ==
  SumSeq([i \in 1..Len(debts) |-> debts[i].minimum_payment])

\* DebtPortfolio.has_high_interest_debt
has_high_interest_debt(debts, threshold) ==
  \E i \in 1..Len(debts) : debts[i].annual_interest_rate > threshold

\* Debt.months_to_payoff_minimum_only: which value is returned.  math.log
\* raises ValueError on an argument that is not positive and the division
\* by M raises ZeroDivisionError; both are caught and None is returned.
months_to_payoff_minimum_only(d) ==
  LET r == d.annual_interest_rate
      P == d.current_balance
      M == d.minimum_payment
  IN IF P <= 0 THEN "0"
     ELSE IF M <= interest_this_month(d) THEN "None"
     ELSE IF r = 0 THEN "P / M"
     ELSE IF M = 0 THEN "None"
     ELSE IF (M > 0 /\ r * P >= 1200 * M) \/ (M < 0 /\ r * P <= 1200 * M)
          THEN "None"
     ELSE IF 1200 + r <= 0 THEN "None"
     ELSE "-log(1 - r * P / M) / log(1 + r)"

\* ------------------------------------------- payoff strategies (from spec)
\* A debt is CLOSED once its balance is at or below the tolerance (one cent).
Tolerance == 1

\* HigherPriority with the avalanche ties left in the order of the list.
HigherPriority_AvalancheListTies(debts, bal, strategy, i, j) ==
  LET ri == debts[i].annual_interest_rate
      rj == debts[j].annual_interest_rate
  IN CASE strategy = "avalanche" ->
            \/ ri > rj
            \/ ri = rj /\ i < j
       [] strategy = "snowball" ->
            \/ bal[i] < bal[j]
            \/ bal[i] = bal[j] /\ ri > rj
            \/ bal[i] = bal[j] /\ ri = rj /\ i < j

\* HigherPriority with the snowball ties left in the order of the list.
HigherPriority_SnowballListTies(debts, bal, strategy, i, j) ==
  LET ri == debts[i].annual_interest_rate
      rj == debts[j].annual_interest_rate
  IN CASE strategy = "avalanche" ->
            \/ ri > rj
            \/ ri = rj /\ bal[i] > bal[j]
            \/ ri = rj /\ bal[i] = bal[j] /\ i < j
       [] strategy = "snowball" ->
            \/ bal[i] < bal[j]
            \/ bal[i] = bal[j] /\ i < j

\* Strict priority of debt i over debt j on the working balances bal;
\* index order breaks the remaining ties, so the order is total.
HigherPriority(debts, bal, strategy, i, j) ==
  LET ri == debts[i].annual_interest_rate
      rj == debts[j].annual_interest_rate
  IN CASE strategy = "avalanche" ->
            \/ ri > rj
            \/ ri = rj /\ bal[i] > bal[j]
            \/ ri = rj /\ bal[i] = bal[j] /\ i < j
       [] strategy = "snowball" ->
            \/ bal[i] < bal[j]
            \/ bal[i] = bal[j] /\ ri > rj
            \/ bal[i] = bal[j] /\ ri = rj /\ i < j

\* prioritize_debts: the indices in S in priority order.
RECURSIVE PriorityOrder(_, _, _, _)
PriorityOrder(debts, bal, strategy, S) ==
  IF S = {} THEN << >>
  ELSE LET first == CHOOSE i \in S :
                      \A j \in S \ {i} : HigherPriority(debts, bal, strategy, i, j)
       IN <<first>> \o PriorityOrder(debts, bal, strategy, S \ {first})

\* prioritize_debts that leaves no debt out.
prioritize_debts_AllDebts(debts, bal, strategy) ==
  PriorityOrder(debts, bal, strategy, 1..Len(debts))

\* prioritize_debts: the debts with a balance, in priority order.
prioritize_debts(debts, bal, strategy) ==
  PriorityOrder(debts, bal, strategy,
                { i \in 1..Len(debts) : bal[i] > 0 })

\* The orders prioritize_debts may return.  The hybrid ordering is left
\* open, so under it any order of the debts with a balance may be returned.
PriorityOrders(debts, bal, strategy) ==
  IF strategy = "hybrid"
  THEN LET S == { i \in 1..Len(debts) : bal[i] > 0 }
       IN { o \in [1..Cardinality(S) -> S] :
              \A a, b \in 1..Cardinality(S) : a # b => o[a] # o[b] }
  ELSE { prioritize_debts(debts, bal, strategy) }

\* ExtraFor that hands the whole budget left to the debt.
ExtraFor_WholeBudget(remaining, budget) == budget

\* The extra amount of one debt: the lesser of its remaining balance and
\* what is left of the budget.
ExtraFor(remaining, budget) == Min(remaining, budget)

\* The waterfall of the budget over the priority order; remaining[i] is
\* debt i's balance after its minimum payment.
RECURSIVE Waterfall(_, _, _, _)
Waterfall(order, remaining, budget, acc) ==
  IF order = << >> THEN acc
  ELSE LET i == Head(order)
           x == ExtraFor(remaining[i], budget)
       IN Waterfall(Tail(order), remaining, budget - x,
                    [acc EXCEPT ![i] = x])

\* The balance b of debt d after the minimum payment of the period: the
\* payment covers the interest first and the principal part is clipped to
\* the balance.
BalanceAfterMinimum(d, b) ==
  b - Min(d.minimum_payment - MulMonthlyRate(b, d.annual_interest_rate), b)

\* allocate_extra_payment over one priority order of the debts.
allocate_extra_payment(debts, bal, order, extra_payment) ==
  LET remaining == [i \in 1..Len(debts) |->
                      BalanceAfterMinimum(debts[i], bal[i])]
  IN [ order |-> order,
       remaining |-> remaining,
       allocations |-> Waterfall(order, remaining, extra_payment,
                                 [i \in 1..Len(debts) |-> 0]) ]

\* One simulated month on the working balances.
MonthStep(debts, bal, extra_payment, strategy) ==
  LET n == Len(debts)
      open == { i \in 1..n : bal[i] > Tolerance }
      Interest(i) ==
        IF i \in open
        THEN MulMonthlyRate(bal[i], debts[i].annual_interest_rate) ELSE 0
      Principal(i) ==
        IF i \in open
        THEN Min(debts[i].minimum_payment - Interest(i), bal[i]) ELSE 0
      Applied(remaining, order, extra) ==
        [ bal |-> [i \in 1..n |-> remaining[i] - extra[i]],
          interest |-> SumSeq([i \in 1..n |-> Interest(i)]),
          total_payment |->
            SumSeq([i \in 1..n |-> Interest(i) + Principal(i) + extra[i]]),
          order |-> order,
          extra |-> extra ]
      Allocated(remaining, order) ==
        Applied(remaining, order,
                Waterfall(order, remaining, extra_payment,
                          [i \in 1..n |-> 0]))
      Extra(remaining) ==
        Allocated(remaining, PriorityOrder(debts, bal, strategy, open))
  IN Extra([i \in 1..n |-> bal[i] - Principal(i)])

\* PayoffStops that lets the loop run one month past the cap.
PayoffStops_PastCap(bal, month, max_months) ==
  month >= max_months + 1 \/ \A i \in 1..Len(bal) : bal[i] <= Tolerance

\* The loop ends when every balance is within the tolerance or the cap of
\* max_months is reached.
PayoffStops(bal, month, max_months) ==
  month >= max_months \/ \A i \in 1..Len(bal) : bal[i] <= Tolerance

RECURSIVE PayoffLoop(_, _, _, _, _, _, _, _)
PayoffLoop(debts, bal, extra_payment, strategy, max_months, month, total_interest, snapshots) ==
  IF PayoffStops(bal, month, max_months)
  THEN [ debt_snapshots |-> snapshots,
         total_interest |-> total_interest,
         months |-> month,
         balances |-> bal ]
  ELSE LET Continue(s) ==
             PayoffLoop(debts, s.bal, extra_payment, strategy, max_months,
                        month + 1, total_interest + s.interest,
                        Append(snapshots, s.total_payment))
       IN Continue(MonthStep(debts, bal, extra_payment, strategy))

\* simulate_payoff: works on a private copy of the balances; months is
\* max_months when the cap is reached.
simulate_payoff(debts, extra_payment, strategy, max_months) ==
  PayoffLoop(debts, [i \in 1..Len(debts) |-> debts[i].current_balance],
             extra_payment, strategy, max_months, 0, 0, << >>)

\* CallerDebtsAfter with the simulation writing its balances to the
\* caller's debts.
CallerDebtsAfter_InPlace(debts, balances) ==
  [ i \in 1..Len(debts) |->
      [ debts[i] EXCEPT !.current_balance = balances[i] ] ]

\* The caller's debts after a simulate_payoff that ended on the working
\* balances: the simulation ran on a deep copy.
CallerDebtsAfter(debts, balances) == debts

\* The caller's debts after one simulate_payoff per extra payment, in order.
RECURSIVE DebtsAfterRuns(_, _, _)
DebtsAfterRuns(debts, extras, strategy) ==
  IF extras = << >> THEN debts
  ELSE DebtsAfterRuns(
         CallerDebtsAfter(debts,
           simulate_payoff(debts, Head(extras), strategy, MaxMonths).balances),
         Tail(extras), strategy)

\* ------------------------------------------------------ simulation engine
\* SimulationEngine.simulate_etf_growth: each month the contribution is
\* added, then the return annual_return / 12 is applied.
RECURSIVE simulate_etf_growth(_, _, _, _)
simulate_etf_growth(monthly_contribution, annual_return, months, initial_balance) ==
  IF months <= 0 THEN << >>
  ELSE LET deposited == initial_balance + monthly_contribution
           balance == (deposited * (1200 + annual_return)) \div 1200
       IN <<balance>> \o simulate_etf_growth(monthly_contribution,
                                             annual_return, months - 1, balance)

\* EtfMonth with the return applied before the contribution is added.
EtfMonth_GrowThenDeposit(acc, contribution, returns) ==
  LET bl == (acc.balance_low * (1200 + returns[1])) \div 1200 + contribution
      bm == (acc.balance_med * (1200 + returns[2])) \div 1200 + contribution
      bh == (acc.balance_high * (1200 + returns[3])) \div 1200 + contribution
  IN [ balance_low |-> bl, balance_med |-> bm, balance_high |-> bh,
       etf_values_low |-> Append(acc.etf_values_low, bl),
       etf_values_med |-> Append(acc.etf_values_med, bm),
       etf_values_high |-> Append(acc.etf_values_high, bh) ]

\* One month of the growth loops of simulate_combined_scenario: the same
\* contribution goes to the three balances, each grows at its own return.
EtfMonth(acc, contribution, returns) ==
  LET bl == ((acc.balance_low + contribution) * (1200 + returns[1])) \div 1200
      bm == ((acc.balance_med + contribution) * (1200 + returns[2])) \div 1200
      bh == ((acc.balance_high + contribution) * (1200 + returns[3])) \div 1200
  IN [ balance_low |-> bl, balance_med |-> bm, balance_high |-> bh,
       etf_values_low |-> Append(acc.etf_values_low, bl),
       etf_values_med |-> Append(acc.etf_values_med, bm),
       etf_values_high |-> Append(acc.etf_values_high, bh) ]

\* for month in range(n): n months at one contribution
RECURSIVE EtfLoop(_, _, _, _)
EtfLoop(n, contribution, returns, acc) ==
  IF n <= 0 THEN acc
  ELSE EtfLoop(n - 1, contribution, returns,
               EtfMonth(acc, contribution, returns))

\* RedirectedContribution without the freed-up minimum payments.
RedirectedContribution_NoMinimums(debts, monthly_extra_debt, monthly_etf) ==
  monthly_etf + monthly_extra_debt

\* monthly_etf_after_debt_free
RedirectedContribution(debts, monthly_extra_debt, monthly_etf) ==
  monthly_etf + monthly_extra_debt + total_minimum_payments(debts)

\* months_to_debt_free of the result
MonthsOrNone(months, max_months) ==
  IF months < max_months THEN Some(months) ELSE None

Last(s, default) == IF s = << >> THEN default ELSE s[Len(s)]

\* SimulationEngine.simulate_combined_scenario
simulate_combined_scenario(debts, monthly_extra_debt, monthly_etf, strategy, returns, initial_etf_balance, max_months) ==
  LET after == RedirectedContribution(debts, monthly_extra_debt, monthly_etf)
      start == [ balance_low |-> initial_etf_balance,
                 balance_med |-> initial_etf_balance,
                 balance_high |-> initial_etf_balance,
                 etf_values_low |-> << >>, etf_values_med |-> << >>,
                 etf_values_high |-> << >> ]
      Results(payoff, sim_months, final) ==
        [ months_to_debt_free |-> MonthsOrNone(payoff.months, max_months),
          total_interest_paid |-> payoff.total_interest,
          total_debt_payments |-> SumSeq(payoff.debt_snapshots),
          total_etf_contributions |->
            monthly_etf * sim_months + after * (max_months - sim_months),
          final_etf_value_low |->
            Last(final.etf_values_low, initial_etf_balance),
          final_etf_value_medium |->
            Last(final.etf_values_med, initial_etf_balance),
          final_etf_value_high |->
            Last(final.etf_values_high, initial_etf_balance),
          debt_snapshots |-> payoff.debt_snapshots,
          etf_values_low |-> final.etf_values_low,
          etf_values_medium |-> final.etf_values_med,
          etf_values_high |-> final.etf_values_high ]
      AfterDebtFree(payoff, sim_months, during) ==
        Results(payoff, sim_months,
                IF max_months - sim_months > 0
                THEN EtfLoop(max_months - sim_months, after, returns, during)
                ELSE during)
      DuringPayoff(payoff, sim_months) ==
        AfterDebtFree(payoff, sim_months,
                      EtfLoop(sim_months, monthly_etf, returns, start))
      Simulate(payoff) == DuringPayoff(payoff, Min(payoff.months, max_months))
  IN Simulate(simulate_payoff(debts, monthly_extra_debt, strategy, max_months))

\* SimulationEngine.create_scenario_comparison
create_scenario_comparison(debts, scenario_name, monthly_extra_debt, monthly_etf, strategy, returns, initial_etf_balance) ==
  LET Comparison(results, remaining_debt) ==
        [ scenario_name |-> scenario_name,
          months_to_debt_free |-> results.months_to_debt_free,
          total_interest_paid |-> results.total_interest_paid,
          total_debt_payments |-> results.total_debt_payments,
          total_etf_contributions |-> results.total_etf_contributions,
          estimated_etf_value_low |-> results.final_etf_value_low,
          estimated_etf_value_medium |-> results.final_etf_value_medium,
          estimated_etf_value_high |-> results.final_etf_value_high,
          net_worth_at_end_low |->
            results.final_etf_value_low - remaining_debt,
          net_worth_at_end_medium |->
            results.final_etf_value_medium - remaining_debt,
          net_worth_at_end_high |->
            results.final_etf_value_high - remaining_debt ]
      NetWorth(results) ==
        Comparison(results, IF Truthy(results.months_to_debt_free)
                            THEN 0 ELSE total_balance(debts))
  IN NetWorth(simulate_combined_scenario(debts, monthly_extra_debt,
       monthly_etf, strategy, returns, initial_etf_balance, MaxMonths))

\* The (extra debt payment, ETF contribution) pairs of the three scenarios.
\* ScenarioSplits whose second scenario puts the surplus into the ETF.
ScenarioSplits_AllToEtf(monthly_surplus) ==
  << [ scenario_name |-> "Minimum Payments Only",
       monthly_extra_debt |-> 0, monthly_etf |-> 0 ],
     [ scenario_name |-> "100% Debt Payoff",
       monthly_extra_debt |-> 0, monthly_etf |-> monthly_surplus ],
     [ scenario_name |-> "Balanced (70% Debt / 30% ETF)",
       monthly_extra_debt |-> MulPct(monthly_surplus, 70),
       monthly_etf |-> MulPct(monthly_surplus, 30) ] >>

\* ScenarioSplits whose balanced scenario splits the surplus in halves.
ScenarioSplits_EvenBalanced(monthly_surplus) ==
  << [ scenario_name |-> "Minimum Payments Only",
       monthly_extra_debt |-> 0, monthly_etf |-> 0 ],
     [ scenario_name |-> "100% Debt Payoff",
       monthly_extra_debt |-> monthly_surplus, monthly_etf |-> 0 ],
     [ scenario_name |-> "Balanced (70% Debt / 30% ETF)",
       monthly_extra_debt |-> MulPct(monthly_surplus, 50),
       monthly_etf |-> MulPct(monthly_surplus, 50) ] >>

ScenarioSplits(monthly_surplus) ==
  << [ scenario_name |-> "Minimum Payments Only",
       monthly_extra_debt |-> 0, monthly_etf |-> 0 ],
     [ scenario_name |-> "100% Debt Payoff",
       monthly_extra_debt |-> monthly_surplus, monthly_etf |-> 0 ],
     [ scenario_name |-> "Balanced (70% Debt / 30% ETF)",
       monthly_extra_debt |-> MulPct(monthly_surplus, 70),
       monthly_etf |-> MulPct(monthly_surplus, 30) ] >>

\* SimulationEngine.compare_scenarios: (minimum_only, debt_only, balanced)
compare_scenarios(debts, monthly_surplus, strategy, returns, initial_etf_balance) ==
  LET splits == ScenarioSplits(monthly_surplus)
      Before(k) ==
        DebtsAfterRuns(debts,
          [j \in 1..(k - 1) |-> splits[j].monthly_extra_debt], strategy)
  IN [ k \in 1..3 |->
         create_scenario_comparison(Before(k), splits[k].scenario_name,
           splits[k].monthly_extra_debt, splits[k].monthly_etf,
           strategy, returns, initial_etf_balance) ]

\* ------------------------------------------------------------ user profile
RiskTolerance == {"conservative", "moderate", "aggressive"}

\* UserProfile: income_streams are monthly amounts, expenses are
\* (amount, is_essential) records.
Profiles ==
  [ income_streams : { << >>, <<80000>>, <<100000, 50000>> },
    expenses : { << [amount |-> 40000, is_essential |-> TRUE],
                    [amount |-> 10000, is_essential |-> FALSE] >> },
    current_savings : {0, 200000},
    current_investments : {0, 100000},
    risk_tolerance : RiskTolerance,
    time_horizon_months : {60},
    emergency_fund_months : {3} ]

\* UserProfile.total_monthly_income
total_monthly_income(profile) == SumSeq(profile.income_streams)

\* UserProfile.total_monthly_expenses
total_monthly_expenses(profile) ==
  SumSeq([i \in 1..Len(profile.expenses) |-> profile.expenses[i].amount])

\* UserProfile.essential_monthly_expenses
essential_monthly_expenses(profile) ==
  SumSeq([i \in 1..Len(profile.expenses) |->
            IF profile.expenses[i].is_essential
            THEN profile.expenses[i].amount ELSE 0])

\* UserProfile.emergency_fund_target
emergency_fund_target(profile) ==
  essential_monthly_expenses(profile) * profile.emergency_fund_months

\* UserProfile.has_adequate_emergency_fund
has_adequate_emergency_fund(profile) ==
  profile.current_savings >= emergency_fund_target(profile)

\* A message is the sequence of its parts; the first part is its prefix.
RECURSIVE Concat(_)
Concat(ss) == IF ss = << >> THEN << >> ELSE Head(ss) \o Concat(Tail(ss))

When(cond, message) == IF cond THEN <<message>> ELSE << >>

\* UserProfile.validate
profile_validate(profile) ==
  Concat(<<
    When(profile.income_streams = << >>, <<"No income streams defined">>),
    When(total_monthly_income(profile) <= 0,
         <<"Total monthly income must be positive">>),
    When(total_monthly_expenses(profile) < 0,
         <<"Total monthly expenses", "cannot be negative">>),
    When(profile.current_savings < 0,
         <<"Current savings", "cannot be negative">>),
    When(profile.current_investments < 0,
         <<"Current investments", "cannot be negative">>),
    When(profile.time_horizon_months <= 0,
         <<"Time horizon must be positive">>),
    When(profile.emergency_fund_months < 0,
         <<"Emergency fund months", "cannot be negative">>),
    When(total_monthly_income(profile) < total_monthly_expenses(profile),
         <<"WARNING", "Monthly expenses exceed income">>),
    When(~ has_adequate_emergency_fund(profile),
         <<"WARNING", "Emergency fund is below recommended target">>) >>)

\* Debt.validate: its messages start with the debt's name.
debt_validate(d) ==
  Concat(<<
    When(d.current_balance < 0, <<d.name, "Balance", "cannot be negative">>),
    When(d.annual_interest_rate < 0,
         <<d.name, "Interest rate", "cannot be negative">>),
    When(d.annual_interest_rate > 100,
         <<d.name, "WARNING", "Interest rate exceeds 100% APR">>),
    When(d.minimum_payment < 0,
         <<d.name, "Minimum payment", "cannot be negative">>),
    When(d.current_balance > 0
           /\ d.minimum_payment <= interest_this_month(d),
         <<d.name, "CRITICAL",
           "Minimum payment does not cover monthly interest">>) >>)

\* DebtPortfolio.validate
portfolio_validate(debts) ==
  When(debts = << >>, <<"No debts defined">>)
    \o Concat([i \in 1..Len(debts) |-> debt_validate(debts[i])])

\* ---------------------------------------------------------------- cashflow
\* CashflowAnalyzer.monthly_surplus
monthly_surplus(profile, debts) ==
  total_monthly_income(profile)
    - (total_monthly_expenses(profile) + total_minimum_payments(debts))

\* CashflowAnalyzer.calculate_safe_surplus (safety_margin = 10%)
calculate_safe_surplus(profile, debts) ==
  LET surplus == monthly_surplus(profile, debts)
  IN IF surplus <= 0 THEN 0 ELSE Max(0, MulPct(surplus, 100 - 10))

\* CashflowAnalyzer.get_red_flags
get_red_flags(profile, debts) ==
  LET surplus == monthly_surplus(profile, debts)
      income == total_monthly_income(profile)
  IN Concat(<<
       When(~ (surplus > 0), <<"CRITICAL", "Negative monthly cashflow">>),
       When(0 < surplus /\ surplus < 10000,
            <<"WARNING", "Very low monthly surplus">>),
       When(income = 0 \/ total_balance(debts) > 2 * (income * 12),
            <<"WARNING", "High debt-to-income ratio">>),
       When(income = 0 \/ total_minimum_payments(debts) * 100 > 43 * income,
            <<"WARNING", "High debt service ratio">>),
       When(~ has_adequate_emergency_fund(profile),
            <<"WARNING", "Emergency fund below recommended">>),
       When(has_high_interest_debt(debts, 20),
            <<"WARNING", "High-interest debt detected">>) >>)
     \o Concat([i \in 1..Len(debts) |->
          When(debts[i].current_balance > 0
                 /\ debts[i].minimum_payment <= interest_this_month(debts[i]),
               <<"CRITICAL", debts[i].name,
                 "minimum payment does not cover interest">>)])

\* ------------------------------------------------------------ amortization
\* principal_payment = min(monthly_payment - interest, balance)
PrincipalPayment(monthly_payment, interest, balance) ==
  Min(monthly_payment - interest, balance)

\* PaymentStops that never stops the schedule.
PaymentStops_Never(principal_payment) == FALSE

\* "Debt is growing, stop calculation": the payment does not exceed the
\* interest.
PaymentStops(principal_payment) == principal_payment <= 0

\* AmortizationRow recording the fixed payment in every row.
AmortizationRow_FullPayment(month, monthly_payment, interest, principal_payment, balance) ==
  [ month |-> month, payment |-> monthly_payment, interest |-> interest,
    principal |-> principal_payment, balance |-> Max(0, balance) ]

\* AmortizationRow numbering the months from 0.
AmortizationRow_ZeroBased(month, monthly_payment, interest, principal_payment, balance) ==
  [ month |-> month - 1,
    payment |-> Min(monthly_payment, interest + balance + principal_payment),
    interest |-> interest, principal |-> principal_payment,
    balance |-> Max(0, balance) ]

\* The tuple appended for a month; balance is the balance after the payment.
AmortizationRow(month, monthly_payment, interest, principal_payment, balance) ==
  [ month |-> month,
    payment |-> Min(monthly_payment, interest + balance + principal_payment),
    interest |-> interest, principal |-> principal_payment,
    balance |-> Max(0, balance) ]

\* for month in range(1, max_months + 1) of calculate_amortization_schedule
RECURSIVE AmortizationLoop(_, _, _, _, _, _)
AmortizationLoop(balance, annual_rate, monthly_payment, max_months, month, schedule) ==
  IF month > max_months \/ balance <= 0 THEN schedule
  ELSE LET Pay(interest, principal_payment) ==
             IF PaymentStops(principal_payment) THEN schedule
             ELSE AmortizationLoop(balance - principal_payment, annual_rate,
                    monthly_payment, max_months, month + 1,
                    Append(schedule,
                           AmortizationRow(month, monthly_payment, interest,
                                           principal_payment,
                                           balance - principal_payment)))
           Accrue(interest) ==
             Pay(interest, PrincipalPayment(monthly_payment, interest, balance))
       IN Accrue(MulMonthlyRate(balance, annual_rate))

\* cashflow.calculate_amortization_schedule
calculate_amortization_schedule(principal, annual_rate, monthly_payment, max_months) ==
  AmortizationLoop(principal, annual_rate, monthly_payment, max_months, 1,
                   << >>)

\* cashflow.calculate_total_interest: the schedule runs to the default cap;
\* a final balance above one cent means the debt was not paid off.
calculate_total_interest(principal, annual_rate, monthly_payment) ==
  LET Total(schedule) ==
        IF schedule = << >> THEN None
        ELSE IF schedule[Len(schedule)].balance > 1 THEN None
        ELSE Some(SumSeq([k \in 1..Len(schedule) |-> schedule[k].interest]))
  IN Total(calculate_amortization_schedule(principal, annual_rate,
                                           monthly_payment, MaxMonths))

\* ---------------------------------------------------------- ETF allocation
\* calculate_allocation_split whose low-interest rule puts investing first
\* for an aggressive profile.
calculate_allocation_split_InvestFirst(profile, debts, surplus) ==
  IF surplus <= 0 THEN <<100, 0>>
  ELSE IF ~ has_adequate_emergency_fund(profile) THEN <<100, 0>>
  ELSE IF has_high_interest_debt(debts, 20) THEN <<100, 0>>
  ELSE IF has_high_interest_debt(debts, 15)
       THEN IF profile.risk_tolerance = "aggressive"
            THEN <<85, 15>> ELSE <<90, 10>>
  ELSE IF has_high_interest_debt(debts, 10)
       THEN CASE profile.risk_tolerance = "conservative" -> <<80, 20>>
              [] profile.risk_tolerance = "moderate" -> <<70, 30>>
              [] OTHER -> <<60, 40>>
  ELSE CASE profile.risk_tolerance = "conservative" -> <<70, 30>>
         [] profile.risk_tolerance = "moderate" -> <<60, 40>>
         [] OTHER -> <<40, 60>>

\* ETFAllocationEngine.calculate_allocation_split: (debt %, ETF %)
calculate_allocation_split(profile, debts, surplus) ==
  IF surplus <= 0 THEN <<100, 0>>
  ELSE IF ~ has_adequate_emergency_fund(profile) THEN <<100, 0>>
  ELSE IF has_high_interest_debt(debts, 20) THEN <<100, 0>>
  ELSE IF has_high_interest_debt(debts, 15)
       THEN IF profile.risk_tolerance = "aggressive"
            THEN <<85, 15>> ELSE <<90, 10>>
  ELSE IF has_high_interest_debt(debts, 10)
       THEN CASE profile.risk_tolerance = "conservative" -> <<80, 20>>
              [] profile.risk_tolerance = "moderate" -> <<70, 30>>
              [] OTHER -> <<60, 40>>
  ELSE CASE profile.risk_tolerance = "conservative" -> <<70, 30>>
         [] profile.risk_tolerance = "moderate" -> <<60, 40>>
         [] OTHER -> <<50, 50>>

\* should_invest_vs_payoff that does not look at the emergency fund.
should_invest_vs_payoff_IgnoresFund(profile, debts) ==
  ~ has_high_interest_debt(debts, 20)

\* ETFAllocationEngine.should_invest_vs_payoff: the flag it returns.
should_invest_vs_payoff(profile, debts) ==
  IF ~ has_adequate_emergency_fund(profile) THEN FALSE
  ELSE IF has_high_interest_debt(debts, 20) THEN FALSE
  ELSE TRUE

\* ETFAllocationEngine.get_expected_returns: (low, medium, high)
get_expected_returns(profile) ==
  CASE profile.risk_tolerance = "conservative" -> <<3, 5, 7>>
    [] profile.risk_tolerance = "moderate" -> <<4, 7, 10>>
    [] OTHER -> <<5, 8, 12>>

\* ETFAllocationEngine.validate_allocation
validate_allocation(profile, debts, debt_percentage, etf_percentage) ==
  LET total == debt_percentage + etf_percentage
      off == IF total >= 100 THEN total - 100 ELSE 100 - total
  IN Concat(<<
       When(debt_percentage < 0 \/ debt_percentage > 100,
            <<"Debt percentage must be between 0 and 1">>),
       When(etf_percentage < 0 \/ etf_percentage > 100,
            <<"ETF percentage must be between 0 and 1">>),
       When(off > 1, <<"Debt and ETF percentages must sum to 100%">>),
       When(etf_percentage > 0 /\ ~ has_adequate_emergency_fund(profile),
            <<"WARNING", "Investing without adequate emergency fund">>),
       When(etf_percentage > 10 /\ has_high_interest_debt(debts, 20),
            <<"WARNING", "Investing while carrying high-interest debt">>) >>)

\* ----------------------------------------------------------------- planner
\* IsCriticalError without the test of the "CRITICAL" prefix.
IsCriticalError_NegativeOnly(w) ==
  \E k \in 1..Len(w) : w[k] = "cannot be negative"

\* The test of validate_inputs for a critical error:
\* w.startswith("CRITICAL") or "cannot be negative" in w
IsCriticalError(w) ==
  \/ w[1] = "CRITICAL"
  \/ \E k \in 1..Len(w) : w[k] = "cannot be negative"

\* validate_inputs that finds every input valid.
validate_inputs_AlwaysValid(profile, debts) ==
  [ is_valid |-> TRUE,
    warnings |-> profile_validate(profile) \o portfolio_validate(debts)
                   \o get_red_flags(profile, debts) ]

\* DeleveragingPlanner.validate_inputs: (is_valid, warnings)
validate_inputs(profile, debts) ==
  LET Verdict(warnings) ==
        [ is_valid |->
            \A k \in 1..Len(warnings) : ~ IsCriticalError(warnings[k]),
          warnings |-> warnings ]
  IN Verdict(profile_validate(profile) \o portfolio_validate(debts)
               \o get_red_flags(profile, debts))

\* calculate_interest_saved whose two runs both get the extra payment.
calculate_interest_saved_SameRun(debts, monthly_extra_payment, strategy) ==
  << simulate_payoff(debts, monthly_extra_payment, strategy,
                     MaxMonths).total_interest,
     simulate_payoff(debts, monthly_extra_payment, strategy,
                     MaxMonths).total_interest >>

\* PayoffStrategyEngine.calculate_interest_saved:
\* (interest_with_extra, interest_minimum_only)
calculate_interest_saved(debts, monthly_extra_payment, strategy) ==
  << simulate_payoff(debts, monthly_extra_payment, strategy,
                     MaxMonths).total_interest,
     simulate_payoff(debts, 0, strategy, MaxMonths).total_interest >>

\* The plan create_plan returns when validation found a critical error.
EmptyPlanOutput(strategy, warnings) ==
  [ recommended_plan |->
      [ strategy |-> strategy,
        monthly_surplus |-> 0,
        debt_allocation_percentage |-> 100,
        etf_allocation_percentage |-> 0,
        monthly_extra_debt_payment |-> 0,
        monthly_etf_contribution |-> 0,
        estimated_months_to_debt_free |-> None,
        total_interest_paid |-> 0,
        total_interest_saved |-> 0,
        estimated_etf_value_low |-> 0,
        estimated_etf_value_medium |-> 0,
        estimated_etf_value_high |-> 0,
        warnings |-> warnings ],
    minimum_only_scenario |-> None,
    debt_only_scenario |-> None,
    balanced_scenario |-> None,
    executive_summary |-> "Unable to create plan due to critical errors.",
    tradeoff_analysis |-> "",
    action_steps |-> <<"Address critical errors before proceeding.">> ]

\* The custom split is None or a pair (debt %, ETF %).
\* The allocation step of create_plan: the split and the warnings so far.
DetermineAllocation(profile, debts, surplus, custom, warnings) ==
  IF custom # None
  THEN [ debt_pct |-> custom[1], etf_pct |-> custom[2],
         warnings |-> warnings
           \o validate_allocation(profile, debts, custom[1], custom[2]) ]
  ELSE LET split == calculate_allocation_split(profile, debts, surplus)
       IN [ debt_pct |-> split[1], etf_pct |-> split[2],
            warnings |-> warnings ]

\* DeleveragingPlanner.create_plan.  output is the PlanOutput; simulated
\* lists the (extra debt payment, ETF contribution, surplus) of every
\* simulate_combined_scenario run it made, in order.
create_plan(profile, debts, strategy, use_safe_surplus, custom) ==
  LET Plan(surplus, alloc, monthly_extra_debt, monthly_etf, recommended, interest, scenarios, splits) ==
        [ output |->
            [ recommended_plan |->
                [ strategy |-> strategy,
                  monthly_surplus |-> surplus,
                  debt_allocation_percentage |-> alloc.debt_pct,
                  etf_allocation_percentage |-> alloc.etf_pct,
                  monthly_extra_debt_payment |-> monthly_extra_debt,
                  monthly_etf_contribution |-> monthly_etf,
                  estimated_months_to_debt_free |->
                    recommended.months_to_debt_free,
                  total_interest_paid |-> recommended.total_interest_paid,
                  total_interest_saved |-> interest[2] - interest[1],
                  estimated_etf_value_low |->
                    recommended.final_etf_value_low,
                  estimated_etf_value_medium |->
                    recommended.final_etf_value_medium,
                  estimated_etf_value_high |->
                    recommended.final_etf_value_high,
                  warnings |-> alloc.warnings ],
              minimum_only_scenario |-> Some(scenarios[1]),
              debt_only_scenario |-> Some(scenarios[2]),
              balanced_scenario |-> Some(scenarios[3]),
              executive_summary |-> "executive summary",
              tradeoff_analysis |-> "tradeoff analysis",
              action_steps |-> <<"action steps">> ],
          simulated |->
            << [ monthly_extra_debt |-> monthly_extra_debt,
                 monthly_etf |-> monthly_etf, monthly_surplus |-> surplus ] >>
            \o [ k \in 1..3 |->
                   [ monthly_extra_debt |-> splits[k].monthly_extra_debt,
                     monthly_etf |-> splits[k].monthly_etf,
                     monthly_surplus |-> surplus ] ] ]
      Simulate(surplus, alloc, monthly_extra_debt, monthly_etf, returns) ==
        Plan(surplus, alloc, monthly_extra_debt, monthly_etf,
             simulate_combined_scenario(debts, monthly_extra_debt,
               monthly_etf, strategy, returns, profile.current_investments,
               MaxMonths),
             calculate_interest_saved(debts, monthly_extra_debt, strategy),
             compare_scenarios(debts, surplus, strategy, returns,
                               profile.current_investments),
             ScenarioSplits(surplus))
      Amounts(surplus, alloc) ==
        Simulate(surplus, alloc, MulPct(surplus, alloc.debt_pct),
                 MulPct(surplus, alloc.etf_pct),
                 get_expected_returns(profile))
      Allocate(v, surplus) ==
        Amounts(surplus, DetermineAllocation(profile, debts, surplus, custom,
                                             v.warnings))
      Validated(v) ==
        IF ~ v.is_valid
        THEN [ output |-> EmptyPlanOutput(strategy, v.warnings),
               simulated |-> << >> ]
        ELSE Allocate(v, IF use_safe_surplus
                         THEN calculate_safe_surplus(profile, debts)
                         ELSE monthly_surplus(profile, debts))
  IN Validated(validate_inputs(profile, debts))

\* PlanOutput.get_comparison_table: one row per scenario that is present.
get_comparison_table(plan_output) ==
  LET scenarios == Concat(<< plan_output.minimum_only_scenario,
                             plan_output.debt_only_scenario,
                             plan_output.balanced_scenario >>)
  IN [ k \in 1..Len(scenarios) |->
         [ Scenario |-> scenarios[k].scenario_name,
           MonthsToDebtFree |->
             IF Truthy(scenarios[k].months_to_debt_free)
             THEN ToString(scenarios[k].months_to_debt_free[1])
             ELSE "N/A" ] ]

\* ---------------------------------------------------------- tool pipeline
\* create_deleveraging_agent: the tools of the SequentialAgent, in order.
Tools == <<"DataValidationTool", "PlanningSimulationTool", "NarrativeTool">>

\* What LLMWrapperTool.run can return: the model's text, or the
\* "LLM_ERROR: ..." string when the call failed.
LLMOutcomes == {"text", "LLM_ERROR"}

\* dict.update
DictUpdate(d, u) ==
  [ k \in (DOMAIN d) \cup (DOMAIN u) |-> IF k \in DOMAIN u THEN u[k] ELSE d[k] ]

\* DataValidationToolWithLLM.run: never raises on a profile and a portfolio.
DataValidationTool_run(state, llm) ==
  [ raised |-> FALSE,
    output |->
      [ profile |-> state.profile,
        debts |-> state.debts,
        cashflow_summary |->
          [ monthly_surplus |-> monthly_surplus(state.profile, state.debts),
            safe_surplus |-> calculate_safe_surplus(state.profile, state.debts),
            red_flags |-> get_red_flags(state.profile, state.debts) ],
        validation_warnings |->
          profile_validate(state.profile) \o portfolio_validate(state.debts)
            \o get_red_flags(state.profile, state.debts),
        llm_financial_summary |-> llm ] ]

\* PlanningSimulationTool_run falling back to avalanche on an unknown tag.
PlanningSimulationTool_run_Fallback(state) ==
  [ raised |-> FALSE,
    output |->
      [ plan_output |->
          create_plan(state.profile, state.debts,
                      IF state.strategy \in PayoffStrategy
                      THEN state.strategy ELSE "avalanche",
                      TRUE, None).output ] ]

\* PlanningSimulationTool.run: PayoffStrategy(strategy) raises ValueError on
\* an unknown tag, before the planner is constructed.
PlanningSimulationTool_run(state) ==
  IF state.strategy \notin PayoffStrategy
  THEN [ raised |-> TRUE, output |-> << >> ]
  ELSE [ raised |-> FALSE,
         output |->
           [ plan_output |->
               create_plan(state.profile, state.debts, state.strategy,
                           TRUE, None).output ] ]

\* Formatting a value with ":.0f" raises TypeError when the value is None.
FormatRaises(x) == x = None

\* The prompt of _generate_llm_narrative formats the plan's months to
\* debt-free and those of the debt-only and balanced scenarios; reading a
\* field of a scenario that is None raises AttributeError.
NarrativePromptRaises(plan_output) ==
  \/ FormatRaises(plan_output.recommended_plan.estimated_months_to_debt_free)
  \/ plan_output.debt_only_scenario = None
  \/ FormatRaises(plan_output.debt_only_scenario[1].months_to_debt_free)
  \/ plan_output.balanced_scenario = None
  \/ FormatRaises(plan_output.balanced_scenario[1].months_to_debt_free)

\* NarrativeTool_run that lets a failed LLM call escape as an exception.
NarrativeTool_run_RaisesOnLLMError(state, llm) ==
  IF NarrativePromptRaises(state.plan_output) \/ llm = "LLM_ERROR"
  THEN [ raised |-> TRUE, output |-> << >> ]
  ELSE [ raised |-> FALSE,
         output |->
           [ final_narrative |->
               [ executive_summary |-> "LLM executive summary",
                 tradeoff_analysis_summary |-> "LLM tradeoff analysis",
                 action_steps |-> state.plan_output.action_steps,
                 comparison_table |-> get_comparison_table(state.plan_output),
                 disclaimer |-> "disclaimer",
                 warnings |-> state.plan_output.recommended_plan.warnings ] ] ]

\* NarrativeToolWithLLM.run: an answer that is not JSON parses to {} and the
\* narrative falls back to the PlanOutput's texts.
NarrativeTool_run(state, llm) ==
  IF NarrativePromptRaises(state.plan_output)
  THEN [ raised |-> TRUE, output |-> << >> ]
  ELSE [ raised |-> FALSE,
         output |->
           [ final_narrative |->
               [ executive_summary |->
                   IF llm = "text" THEN "LLM executive summary"
                   ELSE state.plan_output.executive_summary,
                 tradeoff_analysis_summary |->
                   IF llm = "text" THEN "LLM tradeoff analysis"
                   ELSE state.plan_output.tradeoff_analysis,
                 action_steps |-> state.plan_output.action_steps,
                 comparison_table |-> get_comparison_table(state.plan_output),
                 disclaimer |-> "disclaimer",
                 warnings |-> state.plan_output.recommended_plan.warnings ] ] ]

\* AgentIteration that returns the error entry without the state
\* accumulated so far.
AgentIteration_LosesState(state, name, r) ==
  IF r.raised
  THEN [ stopped |-> TRUE, state |-> [ error |-> <<"Tool", name, "failed">> ] ]
  ELSE [ stopped |-> FALSE, state |-> DictUpdate(state, r.output) ]

\* One iteration of the loop of SequentialAgent.run for the tool named name:
\* merge its output, or record the error and stop.
AgentIteration(state, name, r) ==
  IF r.raised
  THEN [ stopped |-> TRUE,
         state |-> DictUpdate(state, [ error |-> <<"Tool", name, "failed">> ]) ]
  ELSE [ stopped |-> FALSE, state |-> DictUpdate(state, r.output) ]

\* ------------------------------------------------------------------- state
\* debts: the DebtPortfolio held by the engines.
\* op, args, result: the most recent call, its arguments and what it returned.
\* simulated: the simulation runs made by the most recent create_plan.
\* pc: index of the next tool of a SequentialAgent run in progress, else 0.
\* current_output: the accumulated state of that run.
VARIABLES debts, op, args, result, simulated, pc, current_output

vars == <<debts, op, args, result, simulated, pc, current_output>>

Init ==
  /\ debts \in Portfolios
  /\ op = "none"
  /\ args = << >>
  /\ result = << >>
  /\ simulated = << >>
  /\ pc = 0
  /\ current_output = << >>

\* The arguments of the calls are drawn from these sets.
ExtraPayments == {0, 10000, 60000}
EtfContributions == {0, 10000}
Surpluses == {0, 10000, 90000}
ReturnEstimates == { <<0, 0, 0>>, <<4, 7, 10>> }
InitialBalances == {0, 100000}
SimStrategies == {"avalanche", "snowball"}
StrategyTags == SimStrategies \cup {"fastest"}
CustomAllocations == { None, <<100, 0>>, <<70, 30>>, <<150, 50>>, <<60, 20>> }
GrowthMonths == 0..MaxMonths
Principals == {0, 25000, 10000 * MaxMonths + 1, 10000 * (MaxMonths + 1)}
AnnualRates == {0, 12, 24}
DebtInputs ==
  [ name : {"debt"}, current_balance : {-100, 0, 100000},
    annual_interest_rate : {-12, 0, 12},
    minimum_payment : {-500, 0, 500, 1000, 2000} ]
InspectionProfiles ==
  { p \in Profiles : /\ p.income_streams = <<80000>>
                     /\ p.current_savings = 0
                     /\ p.current_investments = 0
                     /\ p.risk_tolerance = "moderate" }
MonthlyPayments == {250, 10000, 15000}
\* Debts handed to prioritize_debts and allocate_extra_payment: equal
\* balances with different rates, equal rates with different balances, a
\* debt its minimum payment clears, a zero and a negative balance.
PriorityPool ==
  << [name |-> "student", current_balance |-> 50000,
      annual_interest_rate |-> 12, minimum_payment |-> 5000],
     [name |-> "store",   current_balance |-> 100000,
      annual_interest_rate |-> 12, minimum_payment |-> 5000],
     [name |-> "visa",    current_balance |-> 100000,
      annual_interest_rate |-> 24, minimum_payment |-> 5000],
     [name |-> "small",   current_balance |-> 5000,
      annual_interest_rate |-> 6,  minimum_payment |-> 10000],
     [name |-> "paid",    current_balance |-> 0,
      annual_interest_rate |-> 30, minimum_payment |-> 1000],
     [name |-> "credit",  current_balance |-> -100,
      annual_interest_rate |-> 0,  minimum_payment |-> 1000] >>
PriorityPortfolios ==
  UNION { { [k \in 1..n |-> PriorityPool[pick[k]]] :
              pick \in { p \in [1..n -> 1..Len(PriorityPool)] :
                           \A i, j \in 1..n : i < j => p[i] < p[j] } } :
          n \in 0..MaxDebts }
\* The engines handed to calculate_allocation_split: profiles with and
\* without an adequate emergency fund, and debts around the rate thresholds.
AllocationProfiles ==
  { p \in Profiles : /\ p.income_streams = <<80000>>
                     /\ p.current_investments = 0 }
RateDebt(rate) ==
  [ name |-> "debt", current_balance |-> 100000,
    annual_interest_rate |-> rate, minimum_payment |-> 5000 ]
AllocationPortfolios ==
  { << >> } \cup { <<RateDebt(r)>> : r \in {0, 10, 11, 15, 16, 20, 21} }
    \cup { <<RateDebt(21), RateDebt(0)>>, <<RateDebt(0), RateDebt(21)>>,
           <<RateDebt(11), RateDebt(16)>> }
AllocationSurpluses == {-10000, 0, 10000}
Balances(ds) == [i \in 1..Len(ds) |-> ds[i].current_balance]

Idle == op = "none" /\ pc = 0

\* simulation.simulate_combined_scenario(...)
SimulateCombinedScenario ==
  \E x \in ExtraPayments, c \in EtfContributions, s \in SimStrategies,
     r \in ReturnEstimates, b \in InitialBalances :
    /\ Idle
    /\ op' = "simulate_combined_scenario"
    /\ args' = [ monthly_extra_debt |-> x, monthly_etf |-> c, strategy |-> s,
                 returns |-> r, initial_etf_balance |-> b ]
    /\ result' = simulate_combined_scenario(debts, x, c, s, r, b, MaxMonths)
    /\ debts' = DebtsAfterRuns(debts, <<x>>, s)
    /\ UNCHANGED <<simulated, pc, current_output>>

\* simulation.compare_scenarios(...)
CompareScenarios ==
  \E m \in Surpluses, s \in SimStrategies, r \in ReturnEstimates,
     b \in InitialBalances :
    /\ Idle
    /\ op' = "compare_scenarios"
    /\ args' = [ monthly_surplus |-> m, strategy |-> s, returns |-> r,
                 initial_etf_balance |-> b ]
    /\ result' = compare_scenarios(debts, m, s, r, b)
    /\ debts' = DebtsAfterRuns(debts,
                  [k \in 1..3 |-> ScenarioSplits(m)[k].monthly_extra_debt], s)
    /\ UNCHANGED <<simulated, pc, current_output>>

\* simulation.simulate_etf_growth(...)
SimulateEtfGrowth ==
  \E c \in EtfContributions, r \in {0, 8}, n \in GrowthMonths,
     b \in InitialBalances :
    /\ Idle
    /\ op' = "simulate_etf_growth"
    /\ args' = [ monthly_contribution |-> c, annual_return |-> r,
                 months |-> n, initial_balance |-> b ]
    /\ result' = simulate_etf_growth(c, r, n, b)
    /\ UNCHANGED <<debts, simulated, pc, current_output>>

\* The three detectors of a non-amortizing debt applied to one debt:
\* debt.months_to_payoff_minimum_only(), debt.validate() and
\* CashflowAnalyzer(profile, DebtPortfolio([debt])).get_red_flags().
InspectDebt ==
  \E d \in DebtInputs, p \in InspectionProfiles :
    /\ Idle
    /\ op' = "inspect_debt"
    /\ args' = [ debt |-> d, profile |-> p ]
    /\ result' = [ months_to_payoff_minimum_only |->
                     months_to_payoff_minimum_only(d),
                   validate |-> debt_validate(d),
                   red_flags |-> get_red_flags(p, <<d>>) ]
    /\ UNCHANGED <<debts, simulated, pc, current_output>>

\* calculate_amortization_schedule(principal, annual_rate, monthly_payment)
CalculateAmortizationSchedule ==
  \E p \in Principals, r \in AnnualRates, m \in MonthlyPayments :
    /\ Idle
    /\ op' = "calculate_amortization_schedule"
    /\ args' = [ principal |-> p, annual_rate |-> r, monthly_payment |-> m ]
    /\ result' = calculate_amortization_schedule(p, r, m, MaxMonths)
    /\ UNCHANGED <<debts, simulated, pc, current_output>>

\* calculate_total_interest(principal, annual_rate, monthly_payment)
CalculateTotalInterest ==
  \E p \in Principals, r \in AnnualRates, m \in MonthlyPayments :
    /\ Idle
    /\ op' = "calculate_total_interest"
    /\ args' = [ principal |-> p, annual_rate |-> r, monthly_payment |-> m ]
    /\ result' = calculate_total_interest(p, r, m)
    /\ UNCHANGED <<debts, simulated, pc, current_output>>

\* PayoffStrategyEngine.prioritize_debts(debts, strategy): the result lists
\* the debts by their position in the argument.
PrioritizeDebts ==
  \E ds \in PriorityPortfolios, s \in PayoffStrategy :
    \E order \in PriorityOrders(ds, Balances(ds), s) :
      /\ Idle
      /\ op' = "prioritize_debts"
      /\ args' = [ debts |-> ds, strategy |-> s ]
      /\ result' = order
      /\ UNCHANGED <<debts, simulated, pc, current_output>>

\* PayoffStrategyEngine.allocate_extra_payment(debts, extra_payment, strategy)
AllocateExtraPayment ==
  \E ds \in PriorityPortfolios, x \in ExtraPayments, s \in PayoffStrategy :
    \E order \in PriorityOrders(ds, Balances(ds), s) :
      /\ Idle
      /\ op' = "allocate_extra_payment"
      /\ args' = [ debts |-> ds, extra_payment |-> x, strategy |-> s ]
      /\ result' = allocate_extra_payment(ds, Balances(ds), order, x)
      /\ UNCHANGED <<debts, simulated, pc, current_output>>

\* PayoffStrategyEngine.calculate_interest_saved(debts, extra, strategy):
\* two simulate_payoff runs, with the extra payment and without.
CalculateInterestSaved ==
  \E x \in ExtraPayments, s \in SimStrategies :
    /\ Idle
    /\ op' = "calculate_interest_saved"
    /\ args' = [ monthly_extra_payment |-> x, strategy |-> s ]
    /\ result' = calculate_interest_saved(debts, x, s)
    /\ debts' = DebtsAfterRuns(debts, <<x, 0>>, s)
    /\ UNCHANGED <<simulated, pc, current_output>>

\* ETFAllocationEngine(profile, debts): calculate_allocation_split(surplus)
\* and should_invest_vs_payoff() of the same engine.
InspectAllocation ==
  \E p \in AllocationProfiles, ds \in AllocationPortfolios,
     m \in AllocationSurpluses :
    /\ Idle
    /\ op' = "inspect_allocation"
    /\ args' = [ profile |-> p, debts |-> ds, monthly_surplus |-> m ]
    /\ result' = [ split |-> calculate_allocation_split(p, ds, m),
                   should_invest |-> should_invest_vs_payoff(p, ds) ]
    /\ UNCHANGED <<debts, simulated, pc, current_output>>

\* DeleveragingPlanner(profile, debts, strategy).create_plan(...)
CreatePlan ==
  \E p \in Profiles, s \in SimStrategies, u \in BOOLEAN,
     c \in CustomAllocations :
    /\ Idle
    /\ op' = "create_plan"
    /\ args' = [ profile |-> p, strategy |-> s, use_safe_surplus |-> u,
                 custom |-> c ]
    /\ LET r == create_plan(p, debts, s, u, c)
       IN /\ result' = r.output
          /\ simulated' = r.simulated
    /\ UNCHANGED <<debts, pc, current_output>>

\* Runner.run(initial_input): SequentialAgent.run starts on its first tool.
AgentStart ==
  \E p \in Profiles, s \in StrategyTags :
    /\ Idle
    /\ op' = "agent_run"
    /\ args' = [ profile |-> p, debts |-> debts, strategy |-> s ]
    /\ current_output' = [ profile |-> p, debts |-> debts, strategy |-> s ]
    /\ pc' = 1
    /\ result' = << >>
    /\ UNCHANGED <<debts, simulated>>

\* The loop body for tool number pc with what the tool did; after the last
\* tool, or on an error, run returns current_output.
AgentAdvance(r) ==
  LET it == AgentIteration(current_output, Tools[pc], r)
      returns == it.stopped \/ pc = Len(Tools)
  IN /\ current_output' = it.state
     /\ pc' = IF returns THEN 0 ELSE pc + 1
     /\ result' = IF returns THEN it.state ELSE result
     /\ UNCHANGED <<debts, op, args, simulated>>

RunDataValidationTool ==
  /\ pc > 0 /\ Tools[pc] = "DataValidationTool"
  /\ \E llm \in LLMOutcomes :
       AgentAdvance(DataValidationTool_run(current_output, llm))

RunPlanningSimulationTool ==
  /\ pc > 0 /\ Tools[pc] = "PlanningSimulationTool"
  /\ AgentAdvance(PlanningSimulationTool_run(current_output))

RunNarrativeTool ==
  /\ pc > 0 /\ Tools[pc] = "NarrativeTool"
  /\ \E llm \in LLMOutcomes :
       AgentAdvance(NarrativeTool_run(current_output, llm))

\* The caller is done with the value the call returned.
Return ==
  /\ op # "none" /\ pc = 0
  /\ op' = "none"
  /\ args' = << >>
  /\ result' = << >>
  /\ simulated' = << >>
  /\ current_output' = << >>
  /\ UNCHANGED <<debts, pc>>

Next ==
  \/ SimulateCombinedScenario
  \/ CompareScenarios
  \/ SimulateEtfGrowth
  \/ InspectDebt
  \/ CalculateAmortizationSchedule
  \/ CalculateTotalInterest
  \/ PrioritizeDebts
  \/ AllocateExtraPayment
  \/ CalculateInterestSaved
  \/ InspectAllocation
  \/ CreatePlan
  \/ AgentStart
  \/ RunDataValidationTool
  \/ RunPlanningSimulationTool
  \/ RunNarrativeTool
  \/ Return

Spec == Init /\ [][Next]_vars

\* ------------------------------------------------------------------ claims
\* The payoff simulation behind scenario k of the last compare_scenarios.
ScenarioPayoff(k) ==
  simulate_payoff(debts, ScenarioSplits(args.monthly_surplus)[k].monthly_extra_debt,
                  args.strategy, MaxMonths)

\* Every debt of a payoff simulation ended at or below the tolerance.
PaidOff(payoff) ==
  \A i \in 1..Len(payoff.balances) : payoff.balances[i] <= Tolerance

\* The debt still outstanding when a payoff simulation ended.
OutstandingDebt(payoff) ==
  IF PaidOff(payoff) THEN 0 ELSE SumSeq(payoff.balances)

C2_BalancedValueAtLeastDebtOnly ==
  (op = "compare_scenarios" /\ args.monthly_surplus > 0
     /\ \A e \in 1..3 : args.returns[e] >= 0) =>
    /\ result[3].estimated_etf_value_low >= result[2].estimated_etf_value_low
    /\ result[3].estimated_etf_value_medium
         >= result[2].estimated_etf_value_medium
    /\ result[3].estimated_etf_value_high >= result[2].estimated_etf_value_high

\* C3: with no initial investment balance the 100%-debt scenario ends with
\* an investment value of zero in all three estimates.
C3_DebtOnlyValueIsZero ==
  (op = "compare_scenarios" /\ args.initial_etf_balance = 0) =>
    /\ result[2].estimated_etf_value_low = 0
    /\ result[2].estimated_etf_value_medium = 0
    /\ result[2].estimated_etf_value_high = 0

\* C4: months_to_debt_free is None exactly when the horizon was reached
\* without payoff; after a payoff within the horizon, the last month
\* included, it is the month count of the payoff simulation.
C4_NoneOnlyWithoutPayoff ==
  op = "simulate_combined_scenario" =>
    LET payoff == simulate_payoff(debts, args.monthly_extra_debt,
                                  args.strategy, MaxMonths)
    IN /\ (result.months_to_debt_free = None) <=> ~ PaidOff(payoff)
       /\ PaidOff(payoff) => result.months_to_debt_free = Some(payoff.months)

\* A finished pipeline run whose plan was simulated and has no payoff within
\* the horizon.
HorizonExceededRun ==
  /\ op = "agent_run" /\ pc = 0
  /\ "plan_output" \in DOMAIN result
  /\ result.plan_output.debt_only_scenario # None
  /\ result.plan_output.recommended_plan.estimated_months_to_debt_free = None

\* C5: a plan whose simulation reached the horizon without payoff is not an
\* error: the pipeline still ends with a final narrative and no 'error'.
C5_HorizonExceededIsNotAnError ==
  HorizonExceededRun =>
    /\ "error" \notin DOMAIN result
    /\ "final_narrative" \in DOMAIN result

\* A debt with a positive balance whose minimum payment does not cover its
\* monthly interest.
NonAmortizing(d) ==
  d.current_balance > 0 /\ d.minimum_payment <= interest_this_month(d)

HasNonAmortizingDebt == \E i \in 1..Len(debts) : NonAmortizing(debts[i])

NoScenarios(plan_output) ==
  /\ plan_output.minimum_only_scenario = None
  /\ plan_output.debt_only_scenario = None
  /\ plan_output.balanced_scenario = None

AllScenarios(plan_output) ==
  /\ plan_output.minimum_only_scenario # None
  /\ plan_output.debt_only_scenario # None
  /\ plan_output.balanced_scenario # None

InvalidSplit(c) ==
  /\ c # None
  /\ \/ c[1] < 0 \/ c[1] > 100
     \/ c[2] < 0 \/ c[2] > 100
     \/ c[1] + c[2] > 101 \/ c[1] + c[2] < 99

\* C7: an invalid custom allocation is fatal: create_plan runs no simulation
\* and produces no scenario comparison from it.
C7_InvalidAllocationIsFatal ==
  (op = "create_plan" /\ InvalidSplit(args.custom)) =>
    /\ simulated = << >>
    /\ NoScenarios(result)

\* C8: with an unrecognized strategy tag the pipeline never holds a
\* plan_output or a final_narrative, and the run ends with an 'error' entry
\* naming the PlanningSimulationTool.
C8_InvalidStrategyIsFatal ==
  (op = "agent_run" /\ args.strategy \notin PayoffStrategy) =>
    /\ "plan_output" \notin DOMAIN current_output
    /\ "final_narrative" \notin DOMAIN current_output
    /\ pc = 0 =>
         /\ result = current_output
         /\ "error" \in DOMAIN result
         /\ result.error = <<"Tool", "PlanningSimulationTool", "failed">>

\* A pipeline run with an unrecognized strategy tag has returned.
C8_Witness ==
  /\ op = "agent_run" /\ pc = 0
  /\ args.strategy \notin PayoffStrategy
  /\ "error" \in DOMAIN result
  /\ "cashflow_summary" \in DOMAIN result

\* Deposit-then-grow: the contribution is added, then one month's return.
DepositThenGrow(balance, contribution, annual_return) ==
  ((balance + contribution) * (1200 + annual_return)) \div 1200

\* The three value series of the last simulate_combined_scenario.
Series(e) ==
  CASE e = 1 -> result.etf_values_low
    [] e = 2 -> result.etf_values_medium
    [] e = 3 -> result.etf_values_high

\* The month debt was cleared, or the horizon when it was not.
DebtFreeMonth ==
  IF result.months_to_debt_free = None THEN MaxMonths
  ELSE result.months_to_debt_free[1]

ValueBefore(series, k) ==
  IF k = 1 THEN args.initial_etf_balance ELSE series[k - 1]

\* C9: up to the month debt is cleared every month's contribution is the
\* ETF contribution; in every later month up to the horizon it is the ETF
\* contribution plus the extra debt payment plus all minimum payments, the
\* same for the three estimates; without payoff there is no later month.
C9_RedirectedContributionAfterPayoff ==
  op = "simulate_combined_scenario" =>
    LET after == args.monthly_etf + args.monthly_extra_debt
                   + total_minimum_payments(debts)
        contribution == [ k \in 1..MaxMonths |->
                            IF k <= DebtFreeMonth THEN args.monthly_etf
                            ELSE after ]
    IN /\ \A e \in 1..3 :
            /\ Len(Series(e)) = MaxMonths
            /\ \A k \in 1..MaxMonths :
                 Series(e)[k] = DepositThenGrow(ValueBefore(Series(e), k),
                                                contribution[k],
                                                args.returns[e])
       /\ result.total_etf_contributions = SumSeq(contribution)
       /\ result.months_to_debt_free = None =>
            \A k \in 1..MaxMonths : contribution[k] = args.monthly_etf

\* Debt was cleared before the horizon and payments were redirected.
C9_Witness ==
  /\ op = "simulate_combined_scenario"
  /\ result.months_to_debt_free # None
  /\ result.months_to_debt_free[1] > 0
  /\ result.months_to_debt_free[1] < MaxMonths - 1
  /\ args.monthly_extra_debt > 0
  /\ args.monthly_etf > 0
  /\ total_minimum_payments(debts) > 0
  /\ args.returns[3] > 0

StrictlyIncreasingFrom(initial, series) ==
  \A k \in 1..Len(series) :
    series[k] > (IF k = 1 THEN initial ELSE series[k - 1])

\* C10: simulate_etf_growth deposits then grows every month starting from
\* the initial balance; the payoff-phase part of each series of
\* simulate_combined_scenario equals simulate_etf_growth with the same
\* contribution, return and initial balance; with a positive contribution
\* and non-negative returns each series is strictly increasing.
C10_DepositThenGrow ==
  /\ op = "simulate_etf_growth" =>
       /\ Len(result) = args.months
       /\ \A m \in 1..Len(result) :
            result[m] =
              (((IF m = 1 THEN args.initial_balance ELSE result[m - 1])
                  + args.monthly_contribution)
                 * (1200 + args.annual_return)) \div 1200
       /\ (args.monthly_contribution > 0 /\ args.annual_return >= 0) =>
            StrictlyIncreasingFrom(args.initial_balance, result)
  /\ op = "simulate_combined_scenario" =>
       \A e \in 1..3 :
         /\ SubSeq(Series(e), 1, DebtFreeMonth) =
              simulate_etf_growth(args.monthly_etf, args.returns[e],
                                  DebtFreeMonth, args.initial_etf_balance)
         /\ (args.monthly_etf > 0 /\ args.returns[e] >= 0) =>
              StrictlyIncreasingFrom(args.initial_etf_balance, Series(e))

\* A combined simulation with a positive contribution and return whose
\* payoff phase lasted at least two months.
C10_Witness ==
  /\ op = "simulate_combined_scenario"
  /\ args.monthly_etf > 0
  /\ args.returns[1] > 0
  /\ args.initial_etf_balance > 0
  /\ DebtFreeMonth >= 2

\* The CRITICAL message of Debt.validate is among the messages ws.
HasValidateCritical(ws) ==
  \E k \in 1..Len(ws) :
    Len(ws[k]) >= 3 /\ ws[k][2] = "CRITICAL"
      /\ ws[k][3] = "Minimum payment does not cover monthly interest"

\* The per-debt CRITICAL message of get_red_flags is among the messages ws.
HasRedFlagCritical(ws) ==
  \E k \in 1..Len(ws) :
    Len(ws[k]) >= 3 /\ ws[k][1] = "CRITICAL"
      /\ ws[k][3] = "minimum payment does not cover interest"

\* minimum payment <= balance * annual rate / 12, in exact arithmetic
MinimumWithinInterest(d) ==
  1200 * d.minimum_payment <= d.current_balance * d.annual_interest_rate

\* C11: the recommended plan's estimated ETF values are the investment
\* balances of the month the user becomes debt-free.
C11_EstimatedValueIsAtDebtFreeMonth ==
  (op = "create_plan" /\ simulated # << >>
     /\ result.recommended_plan.etf_allocation_percentage > 0
     /\ result.recommended_plan.estimated_etf_value_medium > 0
     /\ Truthy(result.recommended_plan.estimated_months_to_debt_free))
  => LET plan == result.recommended_plan
         m == plan.estimated_months_to_debt_free[1]
         run == simulate_combined_scenario(debts,
                  plan.monthly_extra_debt_payment,
                  plan.monthly_etf_contribution, args.strategy,
                  get_expected_returns(args.profile),
                  args.profile.current_investments, MaxMonths)
         At(values) == values[m]
     IN /\ plan.estimated_etf_value_low = At(run.etf_values_low)
        /\ plan.estimated_etf_value_medium = At(run.etf_values_medium)
        /\ plan.estimated_etf_value_high = At(run.etf_values_high)

\* C13: for a debt with a positive balance each of the three detectors
\* reports it exactly when its minimum payment is at most its monthly
\* interest; a debt with balance <= 0 is reported by none of them.
C13_NonAmortizingDetectedExactly ==
  op = "inspect_debt"
  => LET d == args.debt
         flagged == d.current_balance > 0 /\ MinimumWithinInterest(d)
     IN /\ (result.months_to_payoff_minimum_only = "None") <=> flagged
        /\ HasValidateCritical(result.validate) <=> flagged
        /\ HasRedFlagCritical(result.red_flags) <=> flagged

\* C12: when the 100%-debt and the balanced scenario of compare_scenarios
\* both have a finite months-to-debt-free, the 100%-debt one is not larger.
C12_DebtOnlyNoSlowerThanBalanced ==
  (op = "compare_scenarios" /\ result[2].months_to_debt_free # None
     /\ result[3].months_to_debt_free # None)
  => result[2].months_to_debt_free[1] <= result[3].months_to_debt_free[1]

\* Both scenarios paid off within the horizon, the 100%-debt one sooner.
C12_Witness ==
  /\ op = "compare_scenarios"
  /\ args.monthly_surplus > 0
  /\ result[2].months_to_debt_free # None
  /\ result[3].months_to_debt_free # None
  /\ result[2].months_to_debt_free[1] < result[3].months_to_debt_free[1]

\* The balance before the payment of row k of a schedule for principal.
BalanceBefore(principal, schedule, k) ==
  IF k = 1 THEN principal ELSE schedule[k - 1].balance

\* C14: in every row of an amortization schedule the payment is the
\* interest portion plus the principal portion, the principal portion is at
\* most the balance before the payment, and the new balance is that balance
\* minus the principal portion.
C14_AmortizationConservation ==
  op = "calculate_amortization_schedule"
  => \A k \in 1..Len(result) :
       /\ result[k].payment = result[k].interest + result[k].principal
       /\ result[k].principal <= BalanceBefore(args.principal, result, k)
       /\ result[k].balance
            = BalanceBefore(args.principal, result, k) - result[k].principal

\* A schedule with interest whose last payment is below the fixed payment.
C14_Witness ==
  /\ op = "calculate_amortization_schedule"
  /\ Len(result) >= 2
  /\ result[1].interest > 0
  /\ result[1].payment = args.monthly_payment
  /\ result[Len(result)].payment < args.monthly_payment
  /\ result[Len(result)].balance = 0

\* The balance left by the schedule a calculate_total_interest call computes.
BalanceLeft(principal, schedule) ==
  IF schedule = << >> THEN principal ELSE schedule[Len(schedule)].balance

\* C15: calculate_total_interest returns None exactly when the debt does not
\* pay off (a balance above one cent is left when the schedule ends), and
\* for a debt that pays off, a zero principal included, it returns the sum of
\* the interest portions of the schedule.
C15_NoneExactlyWhenNotPaidOff ==
  op = "calculate_total_interest"
  => LET schedule == calculate_amortization_schedule(args.principal,
                       args.annual_rate, args.monthly_payment, MaxMonths)
         pays_off == BalanceLeft(args.principal, schedule) <= 1
     IN /\ (result = None) <=> ~ pays_off
        /\ pays_off
             => result = Some(SumSeq([k \in 1..Len(schedule) |->
                                       schedule[k].interest]))

\* ceil(P / M) for P >= 0 and M > 0
CeilDiv(P, M) == (P + M - 1) \div M

\* C16 as stated: at rate 0, for P > 0 and M > 0, the schedule has exactly
\* ceil(P / M) rows, all with interest 0, numbered from month 1, and its
\* final balance is 0.
C16_ZeroInterestSchedule ==
  (op = "calculate_amortization_schedule" /\ args.annual_rate = 0
     /\ args.principal > 0 /\ args.monthly_payment > 0)
  => /\ Len(result) = CeilDiv(args.principal, args.monthly_payment)
     /\ \A k \in 1..Len(result) :
          result[k].interest = 0 /\ result[k].month = k
     /\ result[Len(result)].balance = 0

\* C16: at rate 0, for P > 0 and M > 0, the schedule has ceil(P / M) rows
\* when that is within the cap of max_months and max_months rows otherwise;
\* every row has interest 0, the rows are numbered from month 1, and the
\* final balance is P less the payments made: 0 when the cap is not reached.
C16_ZeroInterestScheduleWithinCap ==
  (op = "calculate_amortization_schedule" /\ args.annual_rate = 0
     /\ args.principal > 0 /\ args.monthly_payment > 0)
  => LET rows == Min(CeilDiv(args.principal, args.monthly_payment), MaxMonths)
     IN /\ Len(result) = rows
        /\ \A k \in 1..Len(result) :
             result[k].interest = 0 /\ result[k].month = k
        /\ result[Len(result)].balance
             = Max(0, args.principal - rows * args.monthly_payment)
        /\ CeilDiv(args.principal, args.monthly_payment) <= MaxMonths
             => result[Len(result)].balance = 0

\* A zero-interest schedule of several rows that ends below the cap with a
\* partial last payment.
C16_Witness ==
  /\ op = "calculate_amortization_schedule"
  /\ args.annual_rate = 0
  /\ args.principal > 0
  /\ Len(result) >= 2
  /\ Len(result) = CeilDiv(args.principal, args.monthly_payment)
  /\ result[Len(result)].payment < args.monthly_payment

\* C17: no balance recorded in a row of an amortization schedule is
\* negative, and the recorded balance strictly decreases from each month to
\* the next, starting from the principal.
C17_BalancesDecreaseAndStayNonNegative ==
  op = "calculate_amortization_schedule"
  => \A k \in 1..Len(result) :
       /\ result[k].balance >= 0
       /\ result[k].balance < BalanceBefore(args.principal, result, k)

\* A schedule with interest that reached the cap with a balance left.
C17_Witness ==
  /\ op = "calculate_amortization_schedule"
  /\ args.annual_rate > 0
  /\ Len(result) = MaxMonths
  /\ result[Len(result)].balance > 0

\* C18: compare_scenarios returns three scenarios simulated with the same
\* strategy, returns and initial balance: minimum-only with extra payment 0
\* and contribution 0, 100%-debt with the whole surplus as extra payment and
\* contribution 0, balanced with 70% of the surplus as extra payment and
\* 30% as contribution; in the last two the amounts add up to the surplus.
C18_ThreeScenarioSplits ==
  op = "compare_scenarios"
  => LET s == args.monthly_surplus
         name == << "Minimum Payments Only", "100% Debt Payoff",
                    "Balanced (70% Debt / 30% ETF)" >>
         extra == << 0, s, (s * 70) \div 100 >>
         etf == << 0, 0, (s * 30) \div 100 >>
     IN /\ DOMAIN result = 1..3
        /\ \A k \in 1..3 :
             result[k] = create_scenario_comparison(debts, name[k], extra[k],
                           etf[k], args.strategy, args.returns,
                           args.initial_etf_balance)
        /\ extra[2] + etf[2] = s
        /\ extra[3] + etf[3] = s

\* A comparison on a positive surplus in which the balanced scenario both
\* pays debt and invests.
C18_Witness ==
  /\ op = "compare_scenarios"
  /\ args.monthly_surplus > 0
  /\ debts # << >>
  /\ result[3].total_etf_contributions > result[2].total_etf_contributions
  /\ result[2].total_etf_contributions > result[1].total_etf_contributions

LastPayoff ==
  simulate_payoff(debts, args.monthly_extra_debt, args.strategy, MaxMonths)

\* C20: simulate_payoff makes at most max_months monthly steps; it stops at
\* the first month at which every balance is within the tolerance and
\* returns that month count, and otherwise returns max_months; a lone debt
\* whose minimum payment is below its interest, with no extra payment, is
\* not paid off and yields max_months.
C20_PayoffTerminatesWithinCap ==
  op = "simulate_combined_scenario"
  => /\ LastPayoff.months <= MaxMonths
     /\ Len(LastPayoff.debt_snapshots) = LastPayoff.months
     /\ LastPayoff.months < MaxMonths => PaidOff(LastPayoff)
     /\ \A k \in 0..(LastPayoff.months - 1) :
          ~ PaidOff(simulate_payoff(debts, args.monthly_extra_debt,
                                    args.strategy, k))
     /\ (Len(debts) = 1 /\ debts[1].current_balance > 0
          /\ debts[1].minimum_payment < interest_this_month(debts[1])
          /\ args.monthly_extra_debt = 0)
        => LastPayoff.months = MaxMonths /\ ~ PaidOff(LastPayoff)

\* The lone debt below its interest was simulated without extra payment.
C20_Witness ==
  /\ op = "simulate_combined_scenario"
  /\ Len(debts) = 1
  /\ debts[1].minimum_payment < interest_this_month(debts[1])
  /\ args.monthly_extra_debt = 0
  /\ result.months_to_debt_free = None

\* The three parts of the waterfall that are about the amounts: the
\* allocations sum to at most the budget, none exceeds the debt's remaining
\* balance after its minimum payment, and a debt later in the order gets a
\* positive amount only when every earlier one got its full remaining
\* balance.
WaterfallAmounts(r, budget) ==
  /\ SumSeq(r.allocations) <= budget
  /\ \A i \in 1..Len(r.allocations) :
       /\ r.allocations[i] >= 0
       /\ r.allocations[i] <= r.remaining[i]
  /\ \A a, b \in 1..Len(r.order) :
       a < b /\ r.allocations[r.order[b]] > 0 =>
         r.allocations[r.order[a]] = r.remaining[r.order[a]]

\* C21 as stated: allocate_extra_payment gives each debt in priority order
\* the lesser of its remaining balance after the minimum payment and the
\* budget left, so the allocations sum to at most the budget, none exceeds
\* the remaining balance, a lower-priority debt gets a positive amount only
\* if every higher-priority debt got its full remaining balance, and with a
\* positive budget the highest-priority open debt (balance above the
\* tolerance) gets a positive amount.
C21_HighestPriorityOpenDebtIsPaid ==
  op = "allocate_extra_payment" =>
    /\ WaterfallAmounts(result, args.extra_payment)
    /\ \A a \in 1..Len(result.order) :
         /\ args.extra_payment > 0
         /\ args.debts[result.order[a]].current_balance > Tolerance
         /\ \A b \in 1..(a - 1) :
              args.debts[result.order[b]].current_balance <= Tolerance
         => result.allocations[result.order[a]] > 0

\* C21 amended: the same amounts, and with a positive budget the
\* highest-priority debt that still has a balance after its minimum payment
\* gets a positive amount; a debt its minimum payment clears gets nothing.
C21_WaterfallAllocation ==
  op = "allocate_extra_payment" =>
    /\ WaterfallAmounts(result, args.extra_payment)
    /\ \A a \in 1..Len(result.order) :
         /\ args.extra_payment > 0
         /\ result.remaining[result.order[a]] > 0
         /\ \A b \in 1..(a - 1) : result.remaining[result.order[b]] = 0
         => result.allocations[result.order[a]] > 0
    /\ \A i \in 1..Len(args.debts) :
         result.remaining[i] = 0 => result.allocations[i] = 0

\* A budget that pays off the first debt after its minimum payment and
\* spills over to the second, and a first debt that its minimum payment
\* clears while the second is paid.
C21_SpillWitness ==
  /\ op = "allocate_extra_payment"
  /\ Len(result.order) = 2
  /\ args.extra_payment > 0
  /\ LET first == result.order[1]
         second == result.order[2]
     IN /\ result.allocations[second] > 0
        /\ result.allocations[second] < result.remaining[second]
        /\ result.allocations[first] = result.remaining[first]
        /\ result.allocations[first] > 0

\* The highest-priority debt is open and cleared by its minimum payment.
C21_Witness ==
  /\ op = "allocate_extra_payment"
  /\ Len(result.order) = 2
  /\ args.extra_payment > 0
  /\ args.debts[result.order[1]].current_balance > Tolerance
  /\ result.remaining[result.order[1]] = 0
  /\ result.allocations[result.order[2]] > 0

\* The debt at place a of the order prioritize_debts returned.
Prioritized(a) == args.debts[result[a]]

\* C22: under avalanche prioritize_debts returns the debts in descending
\* annual interest rate whatever their balances, and debts of equal rate in
\* descending balance.
C22_AvalancheOrdering ==
  op = "prioritize_debts" /\ args.strategy = "avalanche" =>
    \A a, b \in 1..Len(result) :
      a < b =>
        \/ Prioritized(a).annual_interest_rate
             > Prioritized(b).annual_interest_rate
        \/ /\ Prioritized(a).annual_interest_rate
               = Prioritized(b).annual_interest_rate
           /\ Prioritized(a).current_balance >= Prioritized(b).current_balance

\* Two debts of equal rate: the larger balance comes first although it is
\* second in the list handed in.
C22_Witness ==
  /\ op = "prioritize_debts" /\ args.strategy = "avalanche"
  /\ Len(result) = 2
  /\ Prioritized(1).annual_interest_rate = Prioritized(2).annual_interest_rate
  /\ Prioritized(1).current_balance > Prioritized(2).current_balance
  /\ result[1] > result[2]

\* C23: under snowball prioritize_debts returns the debts in ascending
\* current balance whatever their rates, and debts of equal balance in
\* descending rate.
C23_SnowballOrdering ==
  op = "prioritize_debts" /\ args.strategy = "snowball" =>
    \A a, b \in 1..Len(result) :
      a < b =>
        \/ Prioritized(a).current_balance < Prioritized(b).current_balance
        \/ /\ Prioritized(a).current_balance = Prioritized(b).current_balance
           /\ Prioritized(a).annual_interest_rate
               >= Prioritized(b).annual_interest_rate

\* Two debts of equal balance: the higher rate comes first although it is
\* second in the list handed in.
C23_Witness ==
  /\ op = "prioritize_debts" /\ args.strategy = "snowball"
  /\ Len(result) = 2
  /\ Prioritized(1).current_balance = Prioritized(2).current_balance
  /\ Prioritized(1).annual_interest_rate > Prioritized(2).annual_interest_rate
  /\ result[1] > result[2]

\* The places of an order at which debt i stands.
PlacesOf(order, i) == { a \in 1..Len(order) : order[a] = i }

\* One month of the last simulate_combined_scenario from the balances bal:
\* every open debt stands exactly once in the month's priority order, and a
\* closed debt stands nowhere in it, gets no extra and stays closed.
ClosedStaysOut(bal) ==
  LET Holds(step) ==
        \A i \in 1..Len(debts) :
          IF bal[i] > Tolerance
          THEN Cardinality(PlacesOf(step.order, i)) = 1
          ELSE /\ PlacesOf(step.order, i) = {}
               /\ step.extra[i] = 0
               /\ step.bal[i] <= Tolerance
  IN Holds(MonthStep(debts, bal, args.monthly_extra_debt, args.strategy))

\* The balances after k months of the last simulate_combined_scenario.
BalancesAfter(k) ==
  simulate_payoff(debts, args.monthly_extra_debt, args.strategy, k).balances

\* Every month of the last simulate_combined_scenario keeps the closed debts
\* out.
ClosedDebtsStayOut ==
  op = "simulate_combined_scenario" =>
    \A k \in 0..(LastPayoff.months - 1) : ClosedStaysOut(BalancesAfter(k))

\* C24 as stated: for every strategy the result of prioritize_debts holds
\* every debt with a non-zero balance exactly once and no debt with a zero or
\* negative balance; a closed debt is in no later month's priority order and
\* gets no further extra allocation.
C24_NonZeroBalancesAreOrdered ==
  /\ op = "prioritize_debts" =>
       \A i \in 1..Len(args.debts) :
         /\ args.debts[i].current_balance # 0 =>
              Cardinality(PlacesOf(result, i)) = 1
         /\ args.debts[i].current_balance <= 0 => PlacesOf(result, i) = {}
  /\ ClosedDebtsStayOut

\* C24 amended: for every strategy the result of prioritize_debts holds
\* every debt with a positive balance exactly once and no debt with a zero or
\* negative balance; a closed debt is in no later month's priority order,
\* gets no further extra allocation and stays closed.
C24_PositiveBalancesAreOrdered ==
  /\ op = "prioritize_debts" =>
       \A i \in 1..Len(args.debts) :
         IF args.debts[i].current_balance > 0
         THEN Cardinality(PlacesOf(result, i)) = 1
         ELSE PlacesOf(result, i) = {}
  /\ ClosedDebtsStayOut

\* A debt with a negative balance was handed to prioritize_debts with a debt
\* that has a balance.
C24_Witness ==
  /\ op = "prioritize_debts"
  /\ Len(args.debts) = 2
  /\ Len(result) = 1
  /\ \E i \in 1..2 : args.debts[i].current_balance < 0

\* A debt was closed in a month after which the simulation went on paying
\* extra to another debt.
C24_ClosedWitness ==
  /\ op = "simulate_combined_scenario"
  /\ args.monthly_extra_debt > 0
  /\ \E k \in 1..(LastPayoff.months - 1) :
       \E i, j \in 1..Len(debts) :
         /\ debts[i].current_balance > Tolerance
         /\ BalancesAfter(k)[i] <= Tolerance
         /\ BalancesAfter(k)[j] > Tolerance
         /\ BalancesAfter(k + 1)[j] < BalancesAfter(k)[j]

\* A debt the minimum payment amortizes: it has a balance and its minimum
\* payment is above its monthly interest.
Amortizable(d) ==
  d.current_balance > 0 /\ d.minimum_payment > interest_this_month(d)

HasAmortizableDebt == \E i \in 1..Len(debts) : Amortizable(debts[i])

\* In the first month the extra payment x reaches a debt that bears
\* interest and that the minimum payments alone leave open for a second
\* month, and lowers its next interest by a cent or more.
ExtraReachesInterest(x, strategy) ==
  LET Reaches(with, without) ==
        \E i \in 1..Len(debts) :
          /\ debts[i].annual_interest_rate > 0
          /\ with.extra[i] * debts[i].annual_interest_rate >= 1200
          /\ without.bal[i] > Tolerance
  IN /\ MaxMonths >= 2
     /\ Reaches(MonthStep(debts, Balances(debts), x, strategy),
                MonthStep(debts, Balances(debts), 0, strategy))

\* No debt of the portfolio with a balance bears interest.
NoInterestBearingDebt ==
  \A i \in 1..Len(debts) :
    debts[i].current_balance > 0 => debts[i].annual_interest_rate = 0

\* The plan of the last create_plan, which ran its simulations.
SimulatedPlan == op = "create_plan" /\ simulated # << >>

\* C25 as stated: for a portfolio with an amortizable debt and a positive
\* extra payment, calculate_interest_saved returns a with-extra total
\* strictly below the minimum-only total, so the plan's total_interest_saved
\* is strictly positive.
C25_InterestSavedIsPositive ==
  /\ op = "calculate_interest_saved" /\ args.monthly_extra_payment > 0
       /\ HasAmortizableDebt
     => result[1] < result[2]
  /\ SimulatedPlan /\ result.recommended_plan.monthly_extra_debt_payment > 0
       /\ HasAmortizableDebt
     => result.recommended_plan.total_interest_saved > 0

\* C25 amended: the with-extra total is never above the minimum-only total;
\* it is strictly below it when the extra payment reaches, in the first
\* month, an interest-bearing debt that the minimum payments leave open, and
\* it is equal to it, both being 0, when no debt with a balance bears
\* interest.  The plan's total_interest_saved is their difference.
C25_InterestSavedIsNeverNegative ==
  /\ op = "calculate_interest_saved" =>
       /\ result[1] <= result[2]
       /\ ExtraReachesInterest(args.monthly_extra_payment, args.strategy)
            => result[1] < result[2]
       /\ NoInterestBearingDebt => result[1] = 0 /\ result[2] = 0
  /\ SimulatedPlan =>
       LET plan == result.recommended_plan
       IN /\ plan.total_interest_saved >= 0
          /\ ExtraReachesInterest(plan.monthly_extra_debt_payment,
                                  args.strategy)
               => plan.total_interest_saved > 0
          /\ NoInterestBearingDebt => plan.total_interest_saved = 0

\* An amortizable debt without interest got a positive extra payment and
\* nothing was saved.
C25_Witness ==
  /\ op = "calculate_interest_saved"
  /\ args.monthly_extra_payment > 0
  /\ HasAmortizableDebt
  /\ NoInterestBearingDebt
  /\ result[1] = result[2]

\* A plan whose extra payment saved interest, and one with an amortizable
\* debt whose extra payment saved none.
C25_PlanSavedWitness ==
  /\ SimulatedPlan
  /\ result.recommended_plan.total_interest_saved > 0

C25_PlanNothingSavedWitness ==
  /\ SimulatedPlan
  /\ HasAmortizableDebt
  /\ result.recommended_plan.monthly_extra_debt_payment > 0
  /\ result.recommended_plan.total_interest_saved = 0

\* A split is a pair of shares, each within [0, 1], that sum to 1 and put
\* no more into investing than into debt.
DebtFirstSplit(split) ==
  /\ split[1] \in 0..100
  /\ split[2] \in 0..100
  /\ split[1] + split[2] = 100
  /\ split[1] >= split[2]

\* C26: for every profile, portfolio and surplus calculate_allocation_split
\* returns a debt share and an investment share that are each within
\* [0, 1] and sum to 1, the debt share never below the investment share;
\* so does the split create_plan takes from it.
C26_SplitFavoursDebt ==
  /\ op = "inspect_allocation" => DebtFirstSplit(result.split)
  /\ SimulatedPlan /\ args.custom = None =>
       DebtFirstSplit(<<result.recommended_plan.debt_allocation_percentage,
                        result.recommended_plan.etf_allocation_percentage>>)

\* An aggressive profile with an adequate fund and low-interest debt got an
\* even split.
C26_Witness ==
  /\ op = "inspect_allocation"
  /\ args.profile.risk_tolerance = "aggressive"
  /\ args.monthly_surplus > 0
  /\ result.split = <<50, 50>>

\* C27: with a positive surplus calculate_allocation_split returns 100/0
\* whenever the emergency fund is inadequate and otherwise whenever a debt's
\* annual rate is above 20%, for every risk tolerance;
\* should_invest_vs_payoff returns False in exactly those two cases, so it
\* returns True exactly when the split gives investing a positive share.
C27_RulePrecedence ==
  op = "inspect_allocation" =>
    LET inadequate == ~ has_adequate_emergency_fund(args.profile)
        high == \E i \in 1..Len(args.debts) :
                  args.debts[i].annual_interest_rate > 20
    IN /\ result.should_invest = ~ (inadequate \/ high)
       /\ args.monthly_surplus > 0 =>
            /\ inadequate \/ high => result.split = <<100, 0>>
            /\ result.should_invest = (result.split[2] > 0)

\* The fund is inadequate and no debt is above 20%; the fund is adequate
\* and a debt is above 20%.
C27_Witness ==
  /\ op = "inspect_allocation"
  /\ args.monthly_surplus > 0
  /\ ~ has_adequate_emergency_fund(args.profile)
  /\ args.debts # << >>
  /\ \A i \in 1..Len(args.debts) : args.debts[i].annual_interest_rate <= 20
  /\ result.split = <<100, 0>>
  /\ ~ result.should_invest

C27_HighRateWitness ==
  /\ op = "inspect_allocation"
  /\ args.monthly_surplus > 0
  /\ has_adequate_emergency_fund(args.profile)
  /\ args.profile.risk_tolerance = "aggressive"
  /\ \E i \in 1..Len(args.debts) : args.debts[i].annual_interest_rate = 21
  /\ result.split = <<100, 0>>
  /\ ~ result.should_invest

\* The state of a run holds an error entry.
HasError(state) == "error" \in DOMAIN state

\* The entry by which the output of each tool is known in the state.
ToolKey(name) ==
  CASE name = "DataValidationTool" -> "cashflow_summary"
    [] name = "PlanningSimulationTool" -> "plan_output"
    [] name = "NarrativeTool" -> "final_narrative"

\* The tools whose output the state holds are exactly the first n.
RanFirst(state, n) ==
  \A j \in 1..Len(Tools) : (ToolKey(Tools[j]) \in DOMAIN state) = (j <= n)

\* C28: SequentialAgent.run executes its tools strictly in list order, each
\* on the accumulated state; when a tool raises, the agent records an
\* 'error' entry naming that tool and returns at once the state accumulated
\* so far, and no later tool is run.
C28_ToolsRunInListOrder ==
  [][ /\ pc = 0 /\ pc' # 0 =>
           /\ pc' = 1
           /\ current_output' = args'
      /\ pc > 0 =>
           /\ \A k \in DOMAIN current_output : k \in DOMAIN current_output'
           /\ RanFirst(current_output, pc - 1)
           /\ IF HasError(current_output')
              THEN /\ current_output'.error = <<"Tool", Tools[pc], "failed">>
                   /\ RanFirst(current_output', pc - 1)
                   /\ \A k \in DOMAIN current_output :
                        current_output'[k] = current_output[k]
                   /\ pc' = 0
                   /\ result' = current_output'
              ELSE /\ RanFirst(current_output', pc)
                   /\ pc' = IF pc = Len(Tools) THEN 0 ELSE pc + 1
                   /\ pc' = 0 => result' = current_output'
      /\ pc = 0 /\ op = "agent_run" => pc' = 0 /\ op' = "none"
    ]_vars

\* The second tool raised: the run returned the first tool's output with
\* the error entry, and the third tool did not run.
C28_Witness ==
  /\ op = "agent_run" /\ pc = 0
  /\ HasError(result)
  /\ result.error = <<"Tool", "PlanningSimulationTool", "failed">>
  /\ "cashflow_summary" \in DOMAIN result
  /\ "plan_output" \notin DOMAIN result
  /\ "final_narrative" \notin DOMAIN result

\* A warning that validate_inputs counts as a critical error.
CriticalWarning(w) ==
  w[1] = "CRITICAL" \/ \E k \in 1..Len(w) : w[k] = "cannot be negative"

\* What validate_inputs collects for the last create_plan.
CollectedWarnings ==
  profile_validate(args.profile) \o portfolio_validate(debts)
    \o get_red_flags(args.profile, debts)

FoundCriticalError ==
  \E k \in 1..Len(CollectedWarnings) : CriticalWarning(CollectedWarnings[k])

\* C29: create_plan runs its simulations only when validate_inputs found no
\* critical error, so every simulate_combined_scenario and compare_scenarios
\* it invokes gets a strictly positive monthly surplus and a portfolio in
\* which no debt with a balance has a minimum payment at or below its
\* monthly interest; when validation fails the PlanOutput has zero surplus,
\* zero extra payment, zero contribution and no scenario comparison.
C29_SimulationOnlyAfterValidation ==
  op = "create_plan" =>
    /\ (simulated # << >>) = ~ FoundCriticalError
    /\ simulated # << >> =>
         /\ Len(simulated) = 4
         /\ \A k \in 1..Len(simulated) : simulated[k].monthly_surplus > 0
         /\ result.recommended_plan.monthly_surplus > 0
         /\ \A i \in 1..Len(debts) :
              ~ ( /\ debts[i].current_balance > 0
                  /\ debts[i].minimum_payment
                       <= interest_this_month(debts[i]) )
         /\ AllScenarios(result)
    /\ FoundCriticalError =>
         /\ result.recommended_plan.monthly_surplus = 0
         /\ result.recommended_plan.monthly_extra_debt_payment = 0
         /\ result.recommended_plan.monthly_etf_contribution = 0
         /\ NoScenarios(result)

\* A plan was refused for a debt whose minimum payment is below its
\* interest although the cash flow is positive.
C29_RefusedWitness ==
  /\ op = "create_plan"
  /\ simulated = << >>
  /\ monthly_surplus(args.profile, debts) > 0
  /\ HasNonAmortizingDebt
  /\ NoScenarios(result)

\* A plan was simulated on the safe surplus.
C29_Witness ==
  /\ op = "create_plan"
  /\ args.use_safe_surplus
  /\ Len(simulated) = 4
  /\ simulated[1].monthly_surplus = calculate_safe_surplus(args.profile, debts)
  /\ simulated[1].monthly_surplus < monthly_surplus(args.profile, debts)

\* The last SequentialAgent run has returned.
AgentReturned == op = "agent_run" /\ pc = 0

\* The narrative of a run carries the texts of the PlanOutput.
FallbackNarrative(state) ==
  /\ state.final_narrative.executive_summary
       = state.plan_output.executive_summary
  /\ state.final_narrative.tradeoff_analysis_summary
       = state.plan_output.tradeoff_analysis

\* The narrative of a run carries the texts the LLM answered.
LLMNarrative(state) ==
  /\ state.final_narrative.executive_summary = "LLM executive summary"
  /\ state.final_narrative.tradeoff_analysis_summary = "LLM tradeoff analysis"

\* C30: a failed LLM call never fails the run.  LLMWrapperTool.run returns
\* the 'LLM_ERROR' string, which the validation tool passes on as the
\* financial summary, and the narrative tool falls back to the
\* executive_summary and tradeoff_analysis of the PlanOutput: a run ends with
\* an 'error' entry only for an unknown strategy or a narrative prompt that
\* cannot be built, whatever the LLM calls did, and every other run ends
\* with a final narrative that has all its fields, with the LLM's texts or
\* the PlanOutput's.
C30_LLMFailureDoesNotFailTheRun ==
  AgentReturned =>
    /\ result.llm_financial_summary \in LLMOutcomes
    /\ HasError(result) =
         \/ args.strategy \notin PayoffStrategy
         \/ /\ "plan_output" \in DOMAIN result
            /\ NarrativePromptRaises(result.plan_output)
    /\ ~ HasError(result) =>
         /\ DOMAIN result.final_narrative =
              { "executive_summary", "tradeoff_analysis_summary",
                "action_steps", "comparison_table", "disclaimer", "warnings" }
         /\ LLMNarrative(result) \/ FallbackNarrative(result)

\* Both LLM calls of a run failed and the run ended with the narrative of
\* the PlanOutput's texts and without an error entry.
C30_Witness ==
  /\ AgentReturned
  /\ result.llm_financial_summary = "LLM_ERROR"
  /\ ~ HasError(result)
  /\ FallbackNarrative(result)
  /\ ~ LLMNarrative(result)
  /\ result.final_narrative.comparison_table # << >>


====
